---------------------------- MODULE Spec2Model ----------------------------
(***************************************************************************)
(* Model of the anonymous-messages HTTP service of src/app.ts.             *)
(*                                                                         *)
(* State: the two collections of the document store (links, messages),    *)
(* the wall clock read by Date.now, the requests in flight (one slot per   *)
(* concurrently running handler, with the handler's position and the       *)
(* documents it holds in local variables) and the response sent last.      *)
(* Every handler is cut at its awaits: one action per store operation,     *)
(* together with the synchronous code that runs before and after it.       *)
(***************************************************************************)
EXTENDS Integers, Sequences, FiniteSets, TLC

(***************************************************************************)
(* JavaScript strings.  A string is a sequence of runs; the run            *)
(* [c |-> t, n |-> k] stands for the text t written k times.  A run of     *)
(* blanks has c = " "; every other run's text neither starts nor ends      *)
(* with a blank.  Adjacent runs have different texts.                      *)
(***************************************************************************)
Lit(t) == IF t = "" THEN <<>> ELSE <<[c |-> t, n |-> 1]>>

Rep(t, k) == IF k = 0 \/ t = "" THEN <<>> ELSE <<[c |-> t, n |-> k]>>

RECURSIVE SumRuns(_)
SumRuns(s) == IF s = <<>> THEN 0
              ELSE Len(Head(s).c) * Head(s).n + SumRuns(Tail(s))

\* String.prototype.length
Length(s) == SumRuns(s)

RECURSIVE TrimStart(_)
TrimStart(s) == IF s # <<>> /\ Head(s).c = " " THEN TrimStart(Tail(s)) ELSE s

RECURSIVE TrimEnd(_)
TrimEnd(s) == IF s # <<>> /\ s[Len(s)].c = " "
              THEN TrimEnd(SubSeq(s, 1, Len(s) - 1)) ELSE s

\* String.prototype.trim
Trim(s) == TrimEnd(TrimStart(s))

\* string concatenation (template literals); equal texts meeting at the
\* seam become one run
Concat(a, b) ==
  IF a = <<>> THEN b
  ELSE IF b = <<>> THEN a
  ELSE IF a[Len(a)].c = Head(b).c
       THEN SubSeq(a, 1, Len(a) - 1)
              \o <<[c |-> Head(b).c, n |-> a[Len(a)].n + Head(b).n]>>
              \o Tail(b)
       ELSE a \o b

Digit == <<"0", "1", "2", "3", "4", "5", "6", "7", "8", "9">>

RECURSIVE DecimalText(_)
DecimalText(k) == IF k < 10 THEN Digit[k + 1]
                  ELSE DecimalText(k \div 10) \o Digit[(k % 10) + 1]

\* Number.prototype.toString for a non-negative integer
NumberToString(k) == Lit(DecimalText(k))

(***************************************************************************)
(* JavaScript values as they arrive in a JSON body or a query string and   *)
(* as they leave in a JSON response.                                       *)
(***************************************************************************)
Undefined == [t |-> "undefined"]
StrV(s) == [t |-> "string", s |-> s]
NumV(k) == [t |-> "number", k |-> k]
BoolV(b) == [t |-> "boolean", b |-> b]
DateV(d) == [t |-> "date", d |-> d]

\* ToBoolean: undefined, "" and 0 are falsy
Truthy(v) == CASE v.t = "undefined" -> FALSE
               [] v.t = "string" -> v.s # <<>>
               [] v.t = "number" -> v.k # 0
               [] v.t = "boolean" -> v.b
               [] OTHER -> TRUE

\* v.length < k: the length of a string; a number has no length property,
\* and undefined < k is false
LengthLessThan(v, k) == v.t = "string" /\ Length(v.s) < k

\* v.length > k
LengthGreaterThan(v, k) == v.t = "string" /\ Length(v.s) > k

\* mongoose's cast of a value to a String path
CastString(v) == CASE v.t = "string" -> v.s
                   [] v.t = "number" -> NumberToString(v.k)
                   [] OTHER -> <<>>

\* a || b
OrElse(a, b) == IF Truthy(a) THEN a ELSE b

MinKeyLength == 6
MaxContentLength == 1000

DefaultTitle == Lit("Anonymous Messages")
DefaultDescription == Lit("Send me anonymous messages")

\* a key check that lets every key pass
validateKeyAny(providedKey, storedKey) == TRUE

validateKey(providedKey, storedKey) ==
  providedKey.t = "string" /\ providedKey.s = storedKey


\* String.prototype.substring(0, k), for a cut that falls between two runs
\* or inside a run of a repeated single character
RECURSIVE Substring0(_, _)
Substring0(s, k) ==
  IF k <= 0 \/ s = <<>> THEN <<>>
  ELSE LET h == Head(s)
           w == Len(h.c) * h.n
       IN IF w <= k THEN Concat(<<h>>, Substring0(Tail(s), k - w))
          ELSE IF Len(h.c) = 1 THEN <<[c |-> h.c, n |-> k]>>
          ELSE <<>>

(***************************************************************************)
(* Bounds of the model.                                                    *)
(***************************************************************************)
\* Date.now returns a value in 0..MaxClock; once it has returned MaxClock it
\* keeps returning it (the documents made later tie)
MaxClock == 1
\* how many requests the service receives in one run
MaxRequests == 4

\* the handlers running concurrently
Procs == {1, 2}

\* uuidv4(): 36 characters, the first 8 a run of their own
LinkUuid(i) == <<[c |-> "a1b2c3d" \o Digit[i + 1], n |-> 1],
                 [c |-> "-58cc-4372-a567-0e02b2c3d479", n |-> 1]>>
MessageUuid(i) == <<[c |-> "9b1deb4" \o Digit[i + 1], n |-> 1],
                    [c |-> "-3b7d-4bad-9bdd-2b0d7b3dcb6d", n |-> 1]>>
LinkUuids == {LinkUuid(1), LinkUuid(2)}
MessageUuids == {MessageUuid(1), MessageUuid(2)}

\* uuidv4().substring(0, 8)
LinkIds == {Substring0(u, 8) : u \in LinkUuids}

adjectives == <<"Anonymous", "Secret", "Hidden", "Mystery", "Shadow">>
animals == <<"Fox", "Owl", "Cat", "Wolf", "Bear", "Eagle", "Raven">>

\* generateAnonymousSenderId with its three random draws made explicit:
\* a, b the two array indices (from 0), r the value of
\* Math.floor(Math.random() * 999)
generateAnonymousSenderId(a, b, r) ==
  Lit(adjectives[a + 1] \o animals[b + 1] \o DecimalText(r + 1))

(***************************************************************************)
(* The state.                                                              *)
(***************************************************************************)
VARIABLES
  links,      \* the Link collection: a set of documents
  messages,   \* the Message collection: a set of documents
  now,        \* the value Date.now returned last
  pc,         \* pc[p]: where handler p stands ("idle": no request)
  req,        \* req[p]: the request handler p is serving
  local,      \* local[p]: the handler's local variables
  response,   \* the response sent last, with the request it answers
  sent,       \* history: per messageId, the document answered 201 last
  deleted,    \* history: the messageIds answered "deleted successfully"
              \* since the message of that messageId was sent
  lastToggle, \* history: per linkId, the toggle that was answered last
  served      \* how many requests have been received

vars == <<links, messages, now, pc, req, local, response, sent, deleted,
          lastToggle, served>>

\* Date.now(): the clock does not run backwards; it is read when a
\* document is constructed
DateNow == {t \in 0..MaxClock : now <= t /\ t <= now + 1}

NoRequest == [op |-> "none"]
NoLocal == [none |-> TRUE]
NoToggle == [seen |-> FALSE]

(***************************************************************************)
(* The schemas (linkSchema, messageSchema) and the store's operations.     *)
(***************************************************************************)
\* new Link({linkId, userKey, title, description}): the schema's casts and
\* its defaults for isActive and createdAt
NewLink(linkId, key, title, description, t) ==
  [linkId |-> linkId,
   userKey |-> CastString(key),
   title |-> CastString(title),
   description |-> CastString(description),
   isActive |-> TRUE,
   createdAt |-> t]

\* a message constructed with its own identifier in the linkId field
NewMessageMixedUp(messageId, linkId, content, anonymousSenderId, t) ==
  [messageId |-> messageId,
   linkId |-> messageId,
   content |-> content,
   anonymousSenderId |-> anonymousSenderId,
   timestamp |-> t]

\* new Message({messageId, linkId, content, anonymousSenderId}): the
\* schema's default for timestamp
NewMessage(messageId, linkId, content, anonymousSenderId, t) ==
  [messageId |-> messageId,
   linkId |-> linkId,
   content |-> content,
   anonymousSenderId |-> anonymousSenderId,
   timestamp |-> t]

\* a Link collection without the unique index
NoLinkIndex(doc) == FALSE

\* the unique index on Link.linkId: an insert of a stored linkId is refused
LinkIndexRefuses(doc) == \E l \in links : l.linkId = doc.linkId

\* the unique index on Message.messageId
MessageIndexRefuses(doc) == \E m \in messages : m.messageId = doc.messageId

\* Link.findOne({linkId}): the matching documents (none: null)
FindLink(linkId) == {l \in links : l.linkId = linkId}

\* Message.findOne({messageId})
FindMessage(messageId) == {m \in messages : m.messageId = messageId}

\* Message.find({linkId}), Message.countDocuments({linkId})
MessagesOf(linkId) == {m \in messages : m.linkId = linkId}

\* Link.find({userKey: key})
LinksOfKey(key) == {l \in links : key.t = "string" /\ l.userKey = key.s}

\* the orders in which a find may return the documents of S sorted by
\* rank descending (documents that tie come in any order); rank maps each
\* document to the value of the field it is sorted by
SortedDesc(S, rank) ==
  {s \in [1..Cardinality(S) -> S] :
     /\ \A i, j \in 1..Cardinality(S) : i # j => s[i] # s[j]
     /\ \A i, j \in 1..Cardinality(S) : i < j => rank[s[i]] >= rank[s[j]]}

\* a save that flips whatever is stored instead of writing the value
\* assigned
SaveIsActiveFlipsStored(doc) ==
  {IF l.linkId = doc.linkId THEN [l EXCEPT !.isActive = ~l.isActive] ELSE l
     : l \in links}

\* link.save() of a loaded document whose isActive was assigned: the
\* update sets isActive on the stored document it was loaded from
SaveIsActive(doc) ==
  {IF l.linkId = doc.linkId THEN [l EXCEPT !.isActive = doc.isActive] ELSE l
     : l \in links}

\* Message.deleteOne({messageId})
DeleteOne(messageId) == {m \in messages : m.messageId # messageId}

(***************************************************************************)
(* Responses.  A response is the status, the JSON body's own fields, and   *)
(* the objects nested in it: linkInfo (none or one), messages, links.      *)
(* Every field holds a JavaScript value.  req is the request answered.     *)
(***************************************************************************)
Reply(r, status, body) ==
  [req |-> r, status |-> status, body |-> body,
   linkInfo |-> <<>>, messages |-> <<>>, links |-> <<>>]

\* res.status(status).json({ error: text })
ErrorReply(r, status, text) == Reply(r, status, [error |-> StrV(Lit(text))])

\* the catch block of every handler
InternalError(r) == ErrorReply(r, 500, "Internal server error")

SharePrefix == Lit("/share/")

\* a linkInfo object that copies the whole document, the key included
LinkInfoWithKey(link) ==
  IF "userKey" \in DOMAIN link
  THEN [linkId |-> StrV(link.linkId),
        userKey |-> StrV(link.userKey),
        title |-> StrV(link.title),
        description |-> StrV(link.description),
        isActive |-> BoolV(link.isActive),
        createdAt |-> DateV(link.createdAt)]
  ELSE [linkId |-> StrV(link.linkId),
        title |-> StrV(link.title),
        description |-> StrV(link.description),
        isActive |-> BoolV(link.isActive),
        createdAt |-> DateV(link.createdAt)]

\* the linkInfo object of get-messages and link-info
LinkInfoOf(link) ==
  [linkId |-> StrV(link.linkId),
   title |-> StrV(link.title),
   description |-> StrV(link.description),
   isActive |-> BoolV(link.isActive),
   createdAt |-> DateV(link.createdAt)]

\* a message document under select("-_id -__v")
MessageJson(m) ==
  [messageId |-> StrV(m.messageId),
   linkId |-> StrV(m.linkId),
   content |-> StrV(m.content),
   anonymousSenderId |-> StrV(m.anonymousSenderId),
   timestamp |-> DateV(m.timestamp)]

\* one entry of list-links' linksWithCounts
LinkWithCount(link, messageCount) ==
  [linkId |-> StrV(link.linkId),
   title |-> StrV(link.title),
   description |-> StrV(link.description),
   isActive |-> BoolV(link.isActive),
   createdAt |-> DateV(link.createdAt),
   messageCount |-> NumV(messageCount),
   shareUrl |-> StrV(Concat(SharePrefix, link.linkId))]

\* a link document under select("-userKey -_id -__v")
WithoutUserKey(link) ==
  [linkId |-> link.linkId,
   title |-> link.title,
   description |-> link.description,
   isActive |-> link.isActive,
   createdAt |-> link.createdAt]

Init ==
  /\ links = {}
  /\ messages = {}
  /\ now = 0
  /\ pc = [p \in Procs |-> "idle"]
  /\ req = [p \in Procs |-> NoRequest]
  /\ local = [p \in Procs |-> NoLocal]
  /\ response = Reply(NoRequest, 0, [none |-> BoolV(TRUE)])
  /\ sent = {}
  /\ deleted = {}
  /\ lastToggle = [id \in LinkIds |-> NoToggle]
  /\ served = 0

\* the handler answers and its slot is free again
Finish(p, r) ==
  /\ response' = r
  /\ pc' = [pc EXCEPT ![p] = "idle"]
  /\ req' = [req EXCEPT ![p] = NoRequest]
  /\ local' = [local EXCEPT ![p] = NoLocal]

\* the handler awaits its next store operation
Await(p, r, at, loc) ==
  /\ pc' = [pc EXCEPT ![p] = at]
  /\ req' = [req EXCEPT ![p] = r]
  /\ local' = [local EXCEPT ![p] = loc]
  /\ UNCHANGED response

\* a request arrives at a free handler
Accept(p) ==
  /\ pc[p] = "idle"
  /\ served < MaxRequests
  /\ served' = served + 1

\* no request is being served
Quiet == \A q \in Procs : pc[q] = "idle"

(***************************************************************************)
(* 1. POST /api/links/create                                               *)
(***************************************************************************)
\* the key check of the handler: the request is refused with 400
CreateLinkRefuses(key) == ~Truthy(key) \/ LengthLessThan(key, MinKeyLength)

\* from the request to the await of newLink.save()
CreateLink(p, key, title, description) ==
  LET r == [op |-> "create", key |-> key, title |-> title,
            description |-> description]
  IN /\ Accept(p)
     /\ UNCHANGED <<links, messages, sent, deleted, lastToggle>>
     /\ IF CreateLinkRefuses(key)
        THEN /\ UNCHANGED now
             /\ Finish(p, ErrorReply(r, 400,
                  "Key is required and must be at least 6 characters long"))
        ELSE \E linkId \in LinkIds, t \in DateNow :
               /\ now' = t
               /\ Await(p, r, "create_save",
                     [newLink |->
                        NewLink(linkId, key,
                                OrElse(title, StrV(DefaultTitle)),
                                OrElse(description, StrV(DefaultDescription)),
                                t)])

\* the response to a link that was saved
CreateLinkCreated(r, newLink) ==
  Reply(r, 201,
        [success |-> BoolV(TRUE),
         linkId |-> StrV(newLink.linkId),
         shareUrl |-> StrV(Concat(SharePrefix, newLink.linkId)),
         title |-> StrV(newLink.title),
         description |-> StrV(newLink.description),
         createdAt |-> DateV(newLink.createdAt)])

\* newLink.save() and the response
CreateLinkSave(p) ==
  LET newLink == local[p].newLink
  IN /\ pc[p] = "create_save"
     /\ UNCHANGED <<messages, now, sent, deleted, lastToggle, served>>
     /\ IF LinkIndexRefuses(newLink)
        THEN /\ UNCHANGED links
             /\ Finish(p, InternalError(req[p]))
        ELSE /\ links' = links \cup {newLink}
             /\ Finish(p, CreateLinkCreated(req[p], newLink))

(***************************************************************************)
(* 2. POST /api/messages/:linkId/send                                      *)
(***************************************************************************)
\* !content || content.trim().length === 0, for a string or a missing
\* content
ContentMissing(content) ==
  ~Truthy(content) \/ (content.t = "string" /\ Length(Trim(content.s)) = 0)

ContentTooLong(content) == LengthGreaterThan(content, MaxContentLength)

\* from the request to the await of newMessage.save(): the content checks,
\* Link.findOne and the construction of the document
SendMessage(p, linkId, content, a, b, rnd) ==
  LET r == [op |-> "send", linkId |-> linkId, content |-> content]
      found == FindLink(linkId)
  IN /\ Accept(p)
     /\ UNCHANGED <<links, messages, sent, deleted, lastToggle>>
     /\ IF ContentMissing(content)
        THEN /\ UNCHANGED now
             /\ Finish(p, ErrorReply(r, 400, "Message content is required"))
        ELSE IF content.t # "string"  \* content.trim is not a function
        THEN /\ UNCHANGED now
             /\ Finish(p, InternalError(r))
        ELSE IF ContentTooLong(content)
        THEN /\ UNCHANGED now
             /\ Finish(p, ErrorReply(r, 400,
                                     "Message too long (max 1000 characters)"))
        ELSE IF found = {}
        THEN /\ UNCHANGED now
             /\ Finish(p, ErrorReply(r, 404, "Link not found"))
        ELSE \E link \in found :
               IF ~link.isActive
               THEN /\ UNCHANGED now
                    /\ Finish(p, ErrorReply(r, 403,
                         "This link is no longer accepting messages"))
               ELSE \E u \in MessageUuids, t \in DateNow :
                      /\ now' = t
                      /\ Await(p, r, "send_save",
                               [newMessage |->
                                  NewMessage(u, linkId, Trim(content.s),
                                    generateAnonymousSenderId(a, b, rnd), t)])

\* the response to a message that was saved
SendMessageCreated(r, newMessage) ==
  Reply(r, 201,
        [success |-> BoolV(TRUE),
         messageId |-> StrV(newMessage.messageId),
         anonymousSenderId |-> StrV(newMessage.anonymousSenderId),
         timestamp |-> DateV(newMessage.timestamp),
         message |-> StrV(Lit("Message sent successfully!"))])

\* newMessage.save() and the response
SendMessageSave(p) ==
  LET newMessage == local[p].newMessage
  IN /\ pc[p] = "send_save"
     /\ UNCHANGED <<links, now, lastToggle, served>>
     /\ IF MessageIndexRefuses(newMessage)
        THEN /\ UNCHANGED <<messages, sent, deleted>>
             /\ Finish(p, InternalError(req[p]))
        ELSE /\ messages' = messages \cup {newMessage}
             /\ sent' = {m \in sent : m.messageId # newMessage.messageId}
                          \cup {newMessage}
             /\ deleted' = deleted \ {newMessage.messageId}
             /\ Finish(p, SendMessageCreated(req[p], newMessage))

(***************************************************************************)
(* 3. GET /api/messages/:linkId                                            *)
(***************************************************************************)
\* from the request to the await of Message.find: the key check,
\* Link.findOne and validateKey
GetMessages(p, linkId, key) ==
  LET r == [op |-> "messages", linkId |-> linkId, key |-> key]
      found == FindLink(linkId)
  IN /\ Accept(p)
     /\ UNCHANGED <<links, messages, now, sent, deleted, lastToggle>>
     /\ IF ~Truthy(key)
        THEN Finish(p, ErrorReply(r, 401, "Key is required"))
        ELSE IF found = {}
        THEN Finish(p, ErrorReply(r, 404, "Link not found"))
        ELSE \E link \in found :
               IF ~validateKey(key, link.userKey)
               THEN Finish(p, ErrorReply(r, 401, "Invalid key"))
               ELSE Await(p, r, "messages_find", [link |-> link])

\* a find without its filter
GetMessagesQueryAll(linkId) == messages

\* the documents Message.find({linkId}) matches
GetMessagesQuery(linkId) == MessagesOf(linkId)

\* the orders .sort({timestamp: -1}) may return them in
GetMessagesSorted(linkId) ==
  SortedDesc(GetMessagesQuery(linkId),
             [m \in GetMessagesQuery(linkId) |-> m.timestamp])

\* the response built from the link and the messages found
GetMessagesOk(r, link, found) ==
  [Reply(r, 200, [success |-> BoolV(TRUE),
                  totalMessages |-> NumV(Len(found))])
     EXCEPT !.linkInfo = <<LinkInfoOf(link)>>,
            !.messages = [i \in 1..Len(found) |-> MessageJson(found[i])]]

\* Message.find({linkId}).sort({timestamp: -1}) and the response
GetMessagesFind(p) ==
  /\ pc[p] = "messages_find"
  /\ UNCHANGED <<links, messages, now, sent, deleted, lastToggle, served>>
  /\ \E found \in GetMessagesSorted(req[p].linkId) :
       Finish(p, GetMessagesOk(req[p], local[p].link, found))

(***************************************************************************)
(* GET /api/links                                                          *)
(***************************************************************************)
\* the response built once every count has arrived
ListLinksOk(r, found, counts) ==
  [Reply(r, 200, [success |-> BoolV(TRUE), totalLinks |-> NumV(Len(found))])
     EXCEPT !.links = [i \in 1..Len(found) |->
                         LinkWithCount(found[i], counts[i])]]

\* from the request to the awaits of the counts: the key check and
\* Link.find({userKey: key}).sort({createdAt: -1}).select("-userKey ...")
ListLinks(p, key) ==
  LET r == [op |-> "links", key |-> key]
  IN /\ Accept(p)
     /\ UNCHANGED <<links, messages, now, sent, deleted, lastToggle>>
     /\ IF ~Truthy(key)
        THEN Finish(p, ErrorReply(r, 401, "Key is required"))
        ELSE \E sorted \in SortedDesc(LinksOfKey(key),
                                      [l \in LinksOfKey(key) |-> l.createdAt]) :
               LET found == [i \in 1..Len(sorted) |-> WithoutUserKey(sorted[i])]
               IN IF Len(found) = 0
                  THEN Finish(p, ListLinksOk(r, found, <<>>))
                  ELSE Await(p, r, "links_count",
                             [links |-> found,
                              counts |-> [i \in 1..Len(found) |-> -1]])

\* one Message.countDocuments({linkId}) of the Promise.all; the response
\* once the last one has arrived
ListLinksCount(p, i) ==
  /\ pc[p] = "links_count"
  /\ i \in 1..Len(local[p].links)
  /\ local[p].counts[i] = -1
  /\ UNCHANGED <<links, messages, now, sent, deleted, lastToggle, served>>
  /\ LET counts == [local[p].counts EXCEPT
                      ![i] = Cardinality(MessagesOf(local[p].links[i].linkId))]
     IN IF \A j \in 1..Len(counts) : counts[j] # -1
        THEN Finish(p, ListLinksOk(req[p], local[p].links, counts))
        ELSE Await(p, req[p], "links_count",
                   [local[p] EXCEPT !.counts = counts])

(***************************************************************************)
(* 4. DELETE /api/messages/:messageId                                      *)
(***************************************************************************)
\* from the request to the await of Link.findOne: the key check and
\* Message.findOne
DeleteMessage(p, messageId, key) ==
  LET r == [op |-> "delete", messageId |-> messageId, key |-> key]
      found == FindMessage(messageId)
  IN /\ Accept(p)
     /\ UNCHANGED <<links, messages, now, sent, deleted, lastToggle>>
     /\ IF ~Truthy(key)
        THEN Finish(p, ErrorReply(r, 401, "Key is required"))
        ELSE IF found = {}
        THEN Finish(p, ErrorReply(r, 404, "Message not found"))
        ELSE \E message \in found :
               Await(p, r, "delete_findLink", [message |-> message])

\* Link.findOne({linkId: message.linkId}) and validateKey
DeleteMessageFindLink(p) ==
  LET found == FindLink(local[p].message.linkId)
  IN /\ pc[p] = "delete_findLink"
     /\ UNCHANGED <<links, messages, now, sent, deleted, lastToggle, served>>
     /\ IF found = {}
        THEN Finish(p, ErrorReply(req[p], 404, "Associated link not found"))
        ELSE \E link \in found :
               IF ~validateKey(req[p].key, link.userKey)
               THEN Finish(p, ErrorReply(req[p], 401, "Invalid key"))
               ELSE Await(p, req[p], "delete_deleteOne",
                          [message |-> local[p].message, link |-> link])

\* Message.deleteOne({messageId}) and the response
DeleteMessageDeleteOne(p) ==
  /\ pc[p] = "delete_deleteOne"
  /\ UNCHANGED <<links, now, sent, lastToggle, served>>
  /\ messages' = DeleteOne(req[p].messageId)
  /\ deleted' = deleted \cup {req[p].messageId}
  /\ Finish(p, Reply(req[p], 200,
                     [success |-> BoolV(TRUE),
                      message |-> StrV(Lit("Message deleted successfully"))]))

(***************************************************************************)
(* 5. POST /api/links/:linkId/toggle-visibility                            *)
(***************************************************************************)
\* the toggles of linkId that have read the link and not yet saved
TogglesInFlight(linkId) ==
  {q \in Procs : pc[q] = "toggle_save" /\ req[q].linkId = linkId}

\* a toggle that only ever deactivates
ToggledOff(link) == [link EXCEPT !.isActive = FALSE]

\* link.isActive = !link.isActive
Toggled(link) == [link EXCEPT !.isActive = ~link.isActive]

\* from the request to the await of link.save(): the key check,
\* Link.findOne, validateKey and the assignment to link.isActive.
\* History: read is the isActive found; overlap tells whether another
\* toggle of the link ran between this one's findOne and its save.
ToggleVisibility(p, linkId, key) ==
  LET r == [op |-> "toggle", linkId |-> linkId, key |-> key]
      found == FindLink(linkId)
  IN /\ Accept(p)
     /\ UNCHANGED <<links, messages, now, sent, deleted, lastToggle>>
     /\ IF ~Truthy(key)
        THEN Finish(p, ErrorReply(r, 401, "Key is required"))
        ELSE IF found = {}
        THEN Finish(p, ErrorReply(r, 404, "Link not found"))
        ELSE \E link \in found :
               IF ~validateKey(key, link.userKey)
               THEN Finish(p, ErrorReply(r, 401, "Invalid key"))
               ELSE /\ pc' = [pc EXCEPT ![p] = "toggle_save"]
                    /\ req' = [req EXCEPT ![p] = r]
                    /\ local' =
                         [q \in Procs |->
                            IF q = p
                            THEN [link |-> Toggled(link),
                                  read |-> link.isActive,
                                  overlap |-> TogglesInFlight(linkId) # {}]
                            ELSE IF q \in TogglesInFlight(linkId)
                            THEN [local[q] EXCEPT !.overlap = TRUE]
                            ELSE local[q]]
                    /\ UNCHANGED response

\* the response to a toggle that was saved
ToggleVisibilityOk(r, link) ==
  Reply(r, 200,
        [success |-> BoolV(TRUE),
         linkId |-> StrV(link.linkId),
         isActive |-> BoolV(link.isActive),
         message |-> StrV(Lit(IF link.isActive
                              THEN "Link activated successfully"
                              ELSE "Link deactivated successfully"))])

\* history: what is remembered of a toggle that was answered
ToggleRecord(res, loc, previous) ==
  [seen |-> TRUE,
   alone |-> ~loc.overlap,
   read |-> loc.read,
   status |-> res.status,
   reported |-> res.body.isActive.b,
   before |-> IF previous.seen
              THEN [seen |-> TRUE, alone |-> previous.alone,
                    read |-> previous.read, status |-> previous.status,
                    reported |-> previous.reported]
              ELSE NoToggle]

\* link.save() and the response
ToggleVisibilitySave(p) ==
  LET link == local[p].link
      res == ToggleVisibilityOk(req[p], link)
  IN /\ pc[p] = "toggle_save"
     /\ UNCHANGED <<messages, now, sent, deleted, served>>
     /\ links' = SaveIsActive(link)
     /\ lastToggle' =
          [lastToggle EXCEPT ![link.linkId] =
             ToggleRecord(res, local[p], lastToggle[link.linkId])]
     /\ Finish(p, res)

(***************************************************************************)
(* GET /api/links/:linkId/info                                             *)
(***************************************************************************)
\* Link.findOne({linkId}).select("-userKey -_id -__v") and the response
LinkInfo(p, linkId) ==
  LET r == [op |-> "info", linkId |-> linkId]
      found == FindLink(linkId)
  IN /\ Accept(p)
     /\ UNCHANGED <<links, messages, now, sent, deleted, lastToggle>>
     /\ IF found = {}
        THEN Finish(p, ErrorReply(r, 404, "Link not found"))
        ELSE \E link \in found :
               Finish(p, [Reply(r, 200, [success |-> BoolV(TRUE)])
                            EXCEPT !.linkInfo =
                              <<LinkInfoOf(WithoutUserKey(link))>>])

(***************************************************************************)
(* The requests the clients send.                                          *)
(***************************************************************************)
Secret == Lit("secret123")
Hunter == Lit("hunter2!")

\* :linkId and :messageId of the paths: the identifiers the service hands
\* out and one it does not
UnknownLinkId == Lit("deadbeef")
UnknownMessageId == Lit("no-such-message")
\* body.content of send-message
Hello == StrV(Lit("hello"))
\* the draws of generateAnonymousSenderId
Draws == {<<1, 0, 41>>}

(***************************************************************************)
(* Spec: every endpoint, one request at a time.                            *)
(***************************************************************************)
\* body.key of create-link: too short, or good
CreateKeys == {StrV(Lit("abc12")), StrV(Secret)}
\* body.title of create-link: missing, or the same text as the key
Titles == {Undefined, StrV(Secret)}
\* query.key of the owner's requests: missing, the owner's, another
QueryKeys == {Undefined, StrV(Secret), StrV(Hunter)}
PathLinkIds == LinkIds \cup {UnknownLinkId}
PathMessageIds == MessageUuids \cup {UnknownMessageId}
\* body.content of send-message: missing, or good
Contents == {Undefined, Hello}

Next ==
  \/ /\ Quiet
     /\ \E p \in Procs :
          \/ \E key \in CreateKeys, title \in Titles :
               CreateLink(p, key, title, Undefined)
          \/ \E linkId \in PathLinkIds, content \in Contents, d \in Draws :
               SendMessage(p, linkId, content, d[1], d[2], d[3])
          \/ \E linkId \in PathLinkIds, key \in QueryKeys :
               GetMessages(p, linkId, key)
          \/ \E key \in QueryKeys : ListLinks(p, key)
          \/ \E messageId \in PathMessageIds, key \in QueryKeys :
               DeleteMessage(p, messageId, key)
          \/ \E linkId \in PathLinkIds, key \in QueryKeys :
               ToggleVisibility(p, linkId, key)
          \/ \E linkId \in PathLinkIds : LinkInfo(p, linkId)
  \/ \E p \in Procs :
       \/ CreateLinkSave(p)
       \/ SendMessageSave(p)
       \/ GetMessagesFind(p)
       \/ \E i \in 1..Cardinality(LinkIds) : ListLinksCount(p, i)
       \/ DeleteMessageFindLink(p)
       \/ DeleteMessageDeleteOne(p)
       \/ ToggleVisibilitySave(p)

Spec == Init /\ [][Next]_vars

(***************************************************************************)
(* SpecVisibility: create-link, send-message and toggle-visibility         *)
(* requests that overlap.  Hunter is the key of no link.                   *)
(***************************************************************************)
OwnerKeys == {StrV(Secret), StrV(Hunter)}

NextVisibility ==
  \E p \in Procs :
    \/ CreateLink(p, StrV(Secret), Undefined, Undefined)
    \/ CreateLinkSave(p)
    \/ \E linkId \in LinkIds, d \in Draws :
         SendMessage(p, linkId, Hello, d[1], d[2], d[3])
    \/ SendMessageSave(p)
    \/ \E linkId \in LinkIds, key \in OwnerKeys :
         ToggleVisibility(p, linkId, key)
    \/ ToggleVisibilitySave(p)

SpecVisibility == Init /\ [][NextVisibility]_vars

(***************************************************************************)
(* SpecOwner: the owner's requests (get-messages, delete-message,          *)
(* toggle-visibility) overlapping with each other and with send-message.   *)
(***************************************************************************)
NextOwner ==
  \E p \in Procs :
    \/ CreateLink(p, StrV(Secret), Undefined, Undefined)
    \/ CreateLinkSave(p)
    \/ \E linkId \in LinkIds, d \in Draws :
         SendMessage(p, linkId, Hello, d[1], d[2], d[3])
    \/ SendMessageSave(p)
    \/ \E linkId \in LinkIds, key \in OwnerKeys : GetMessages(p, linkId, key)
    \/ GetMessagesFind(p)
    \/ \E messageId \in MessageUuids, key \in OwnerKeys :
         DeleteMessage(p, messageId, key)
    \/ DeleteMessageFindLink(p)
    \/ DeleteMessageDeleteOne(p)
    \/ \E linkId \in LinkIds, key \in OwnerKeys :
         ToggleVisibility(p, linkId, key)
    \/ ToggleVisibilitySave(p)

SpecOwner == Init /\ [][NextOwner]_vars

(***************************************************************************)
(* SpecInputs: create-link and send-message with the bodies a client can   *)
(* send, one request at a time.                                            *)
(***************************************************************************)
\* body.key: missing, empty, too short, good, and JSON numbers
BodyKeys == {Undefined, StrV(Lit("")), StrV(Lit("abc12")), StrV(Lit("abc123")),
             StrV(Secret), NumV(0), NumV(12345), NumV(1234567)}
\* body.content: missing, blank, padded, at and over the limit, and a JSON
\* number
BodyContents ==
  {Undefined, StrV(Rep(" ", 3)), StrV(Rep(" ", 1) \o Lit("hello")),
   StrV(Rep("x", MaxContentLength)),
   StrV(Rep("x", MaxContentLength) \o Rep(" ", 1)),
   StrV(Rep("x", MaxContentLength + 1)), NumV(7)}

NextInputs ==
  \/ /\ Quiet
     /\ \E p \in Procs :
          \/ \E key \in BodyKeys : CreateLink(p, key, Undefined, Undefined)
          \/ \E linkId \in PathLinkIds, content \in BodyContents, d \in Draws :
               SendMessage(p, linkId, content, d[1], d[2], d[3])
          \/ \E linkId \in LinkIds, key \in {StrV(Secret)} :
               ToggleVisibility(p, linkId, key)
  \/ \E p \in Procs :
       \/ CreateLinkSave(p)
       \/ SendMessageSave(p)
       \/ ToggleVisibilitySave(p)

SpecInputs == Init /\ [][NextInputs]_vars

(***************************************************************************)
(* The claims.                                                             *)
(***************************************************************************)
\* the objects of the response sent last: the body and what is nested in it
ResponseObjects ==
  <<response.body>> \o response.linkInfo \o response.messages \o response.links

\* the stored link with this linkId
StoredLinks(linkId) == {l \in links : l.linkId = linkId}

\* C1: no message is persisted for a link whose stored isActive is false:
\* when a send-message request has just been answered 201 (its message
\* saved), the link it was sent to is stored with isActive = true.
C1_NoMessageWhileInactive ==
  (response.req.op = "send" /\ response.status = 201)
    => \A l \in StoredLinks(response.req.linkId) : l.isActive

\* C2: two correct-key toggles of a link run one after the other, with no
\* other toggle of the link overlapping either: both are answered 200, each
\* reports the negation of the value it found stored, and the link is stored
\* with the value it had before the first.
C2_TwoTogglesRestore ==
  \A id \in LinkIds :
    LET t == lastToggle[id]
    IN (/\ response.req.op = "toggle" /\ response.req.linkId = id
        /\ response.status = 200
        /\ t.seen /\ t.alone /\ t.before.seen /\ t.before.alone)
       => /\ t.before.status = 200
          /\ t.before.reported = ~t.before.read
          /\ t.read = t.before.reported
          /\ t.status = 200
          /\ t.reported = ~t.read
          /\ response.body.isActive = BoolV(t.reported)
          /\ \A l \in StoredLinks(id) : l.isActive = t.before.read

\* C2's case, for a link that was inactive before the first of the two
C2_Witness ==
  \E id \in LinkIds :
    /\ response.req.op = "toggle" /\ response.req.linkId = id
    /\ response.status = 200
    /\ lastToggle[id].seen /\ lastToggle[id].alone
    /\ lastToggle[id].before.seen /\ lastToggle[id].before.alone
    /\ ~lastToggle[id].before.read
    /\ \E l \in StoredLinks(id) : ~l.isActive

\* C9: two correct-key toggles of a link that overlap and found the same
\* isActive stored: both are answered 200 and report the same new value, and
\* the link is stored with that value (one flip, not two); no toggle is ever
\* answered with the 500 error.
C9_OverlappingTogglesLastWriteWins ==
  /\ response.req.op = "toggle" => response.status \in {200, 401, 404}
  /\ \A id \in LinkIds :
       LET t == lastToggle[id]
       IN (/\ response.req.op = "toggle" /\ response.req.linkId = id
           /\ response.status = 200
           /\ t.seen /\ ~t.alone /\ t.before.seen /\ ~t.before.alone
           /\ t.read = t.before.read)
          => /\ t.status = 200 /\ t.before.status = 200
             /\ t.reported = ~t.read
             /\ t.before.reported = t.reported
             /\ response.body.isActive = BoolV(t.reported)
             /\ \A l \in StoredLinks(id) : l.isActive = t.reported

\* C9's case: the second of two overlapping toggles that read the same
\* value has just been answered
C9_Witness ==
  \E id \in LinkIds :
    /\ response.req.op = "toggle" /\ response.req.linkId = id
    /\ response.status = 200
    /\ lastToggle[id].seen /\ ~lastToggle[id].alone
    /\ lastToggle[id].before.seen /\ ~lastToggle[id].before.alone
    /\ lastToggle[id].read = lastToggle[id].before.read
    /\ \E l \in StoredLinks(id) : l.isActive = ~lastToggle[id].read

\* C7: linkIds and messageIds are unique among the stored documents; a
\* create-link or send-message whose generated identifier is already stored
\* when its save runs is answered 500, and that step adds and alters no
\* document.
C7_UniqueIdentifiers ==
  /\ [](/\ \A l1, l2 \in links : l1.linkId = l2.linkId => l1 = l2
        /\ \A m1, m2 \in messages : m1.messageId = m2.messageId => m1 = m2)
  /\ [][\A p \in Procs :
          (/\ pc[p] = "create_save" /\ pc'[p] = "idle"
           /\ \E l \in links : l.linkId = local[p].newLink.linkId)
          => (/\ response'.status = 500
              /\ response'.body = [error |-> StrV(Lit("Internal server error"))]
              /\ links' = links /\ messages' = messages)]_vars
  /\ [][\A p \in Procs :
          (/\ pc[p] = "send_save" /\ pc'[p] = "idle"
           /\ \E m \in messages : m.messageId = local[p].newMessage.messageId)
          => (/\ response'.status = 500
              /\ response'.body = [error |-> StrV(Lit("Internal server error"))]
              /\ links' = links /\ messages' = messages)]_vars

\* C7's case: a create-link has just been answered 500 because the linkId it
\* generated was stored
C7_Witness ==
  /\ response.req.op = "create" /\ response.status = 500
  /\ links # {}

\* the request answered last is an owner's request that supplies a key
\* which is not the key of the link it targets (for delete-message: of the
\* link of the stored message it names)
WrongKeyAnswered ==
  /\ response.req.op \in {"messages", "toggle", "delete"}
  /\ Truthy(response.req.key)
  /\ IF response.req.op = "delete"
     THEN \E m \in messages :
            /\ m.messageId = response.req.messageId
            /\ \E l \in StoredLinks(m.linkId) :
                 ~(response.req.key.t = "string"
                   /\ response.req.key.s = l.userKey)
     ELSE \E l \in StoredLinks(response.req.linkId) :
            ~(response.req.key.t = "string" /\ response.req.key.s = l.userKey)

\* C5: an owner's request with a key that is not the owning link's is
\* answered 401 with nothing but the error text; a step that leaves a 401
\* as the last response has changed no link and no message; and a message
\* is removed, or a link's isActive changed, only by the step of a
\* delete-message or toggle-visibility request whose key is the owning
\* link's userKey.
C5_WrongKeyChangesNothing ==
  /\ [](WrongKeyAnswered
          => /\ response.status = 401
             /\ DOMAIN response.body = {"error"}
             /\ response.linkInfo = <<>> /\ response.messages = <<>>
             /\ response.links = <<>>)
  /\ [][response'.status = 401 => (links' = links /\ messages' = messages)]_vars
  /\ [][\A m \in messages \ messages' :
          /\ response'.req.op = "delete"
          /\ response'.req.messageId = m.messageId
          /\ \A l \in StoredLinks(m.linkId) :
               response'.req.key = StrV(l.userKey)]_vars
  /\ [][\A l \in links :
          (\E k \in links' : k.linkId = l.linkId /\ k.isActive # l.isActive)
          => /\ response'.req.op = "toggle"
             /\ response'.req.linkId = l.linkId
             /\ response'.req.key = StrV(l.userKey)]_vars

\* C5's case: a delete-message with another key, naming a stored message,
\* has just been answered
C5_Witness ==
  /\ WrongKeyAnswered
  /\ response.req.op = "delete"
  /\ response.status = 401

\* C10: every stored message's linkId is the linkId of a stored link, and
\* delete-message never answers "Associated link not found".
C10_MessagesHaveLinks ==
  /\ \A m \in messages : StoredLinks(m.linkId) # {}
  /\ \A i \in DOMAIN ResponseObjects :
       "error" \in DOMAIN ResponseObjects[i]
         => ResponseObjects[i].error # StrV(Lit("Associated link not found"))

\* C10's case: a delete-message has looked up the link of a stored message
\* and deleted the message
C10_Witness ==
  /\ response.req.op = "delete" /\ response.status = 200
  /\ response.req.messageId \in {m.messageId : m \in sent}

\* the messages answered 201 for linkId whose deletion was not answered
MessagesSentAndKept(linkId) ==
  {m \in sent : m.linkId = linkId /\ m.messageId \notin deleted}

\* C4: a get-messages with the link's key is answered 200 with exactly the
\* messages sent to that linkId and not deleted since, newest first, and
\* totalMessages is their number.
C4_GetMessagesExact ==
  response.req.op = "messages"
    => /\ (\E l \in StoredLinks(response.req.linkId) :
             response.req.key = StrV(l.userKey)) => response.status = 200
       /\ response.status = 200 =>
            LET kept == MessagesSentAndKept(response.req.linkId)
                got == response.messages
            IN /\ {got[i] : i \in DOMAIN got} = {MessageJson(m) : m \in kept}
               /\ Len(got) = Cardinality(kept)
               /\ \A i, j \in DOMAIN got :
                    i < j => got[i].timestamp.d >= got[j].timestamp.d
               /\ response.body.totalMessages = NumV(Cardinality(kept))

\* C4's case: a get-messages answered with two messages of different
\* timestamps
C4_Witness ==
  /\ response.req.op = "messages" /\ response.status = 200
  /\ Len(response.messages) = 2
  /\ response.messages[1].timestamp # response.messages[2].timestamp

C6_ShortKeyRefused ==
  /\ (/\ response.req.op = "create"
      /\ \/ response.req.key.t = "undefined"
         \/ /\ response.req.key.t = "string"
            /\ Length(response.req.key.s) < MinKeyLength)
       => response.status = 400
  /\ \A l \in links : Length(l.userKey) >= MinKeyLength
  /\ (response.req.op = "create" /\ response.status = 201)
       => \A l \in StoredLinks(response.body.linkId.s) : l.isActive

\* C8: a send-message to a stored, active link with a string content,
\* answered 201 or 400, is accepted (201) exactly when the trimmed content
\* has 1 to 1000 characters, and an accepted one stores the trimmed content.
C8_ContentAcceptedIffTrimmedFits ==
  (/\ response.req.op = "send"
   /\ response.req.content.t = "string"
   /\ \E l \in StoredLinks(response.req.linkId) : l.isActive
   /\ response.status \in {201, 400})
    => LET n == Length(Trim(response.req.content.s))
       IN /\ response.status = 201 <=> (1 <= n /\ n <= MaxContentLength)
          /\ response.status = 201
               => \E m \in messages :
                    /\ m.messageId = response.body.messageId.s
                    /\ m.content = Trim(response.req.content.s)

=============================================================================
